---- MODULE Spec2Model ----
(***************************************************************************)
(* Verification model of toydb-python:                                     *)
(*   - the LSM store (src/src/lsm.py with memtable.py, sstable.py, wal.py) *)
(*   - the paged B+ tree index (src/BPlusTreeIndex/b_plus_tree_index.py)   *)
(*                                                                         *)
(* Strings are modelled by small integers that keep their order.  Keys     *)
(* 1..MaxKey are string keys; keys greater than Tilde sort after "~".      *)
(* BadKey is a key that is not a string.  Values 1..MaxVal are payloads,   *)
(* NULL is Python's None.                                                  *)
(***************************************************************************)
EXTENDS Integers, Sequences, FiniteSets, TLC

\* ---- bounds -------------------------------------------------------------
MaxKey == 3        \* string keys are 1..MaxKey
MaxVal == 2        \* payloads are 1..MaxVal
MaxSize == 2       \* MemTable.max_size, scaled down from 1000
MaxSstables == 1   \* LSMTree.max_sstables, scaled down from 5
MaxOps == 4        \* calls and process ends in one history of the store
DeepMaxSstables == 2  \* max_sstables of the long single-session runs
MaxDeepOps == 10   \* calls in one long single-session run
MaxLifeOps == 11   \* calls and process ends in one long life of a store
LifeValue == 1     \* the payload of every set of a long life
MaxGenCalls == 4   \* set, get, delete and close calls in one run with a generator
MaxTKey == 6       \* keys of the in-memory B+ tree are 1..MaxTKey
MinTOrder == 2     \* orders of the in-memory B+ tree are MinTOrder..MaxTOrder
MaxTOrder == 3
MaxTOps == 6       \* insert and delete calls on one in-memory B+ tree
NThreads == 2      \* writer threads
SetsPerThread == 2 \* set calls of each writer thread
MaxBKey == 6       \* B+ index keys are 1..MaxBKey
MaxOrder == 4      \* B+ index orders are MinOrder..MaxOrder
ShortKey == 1      \* length in bytes of the keys of an index with short keys
LongKey == 1500    \* length in bytes of the keys of an index with long keys
MaxDeepKey == 10   \* keys of the deep B+ index runs are 1..MaxDeepKey
SmallOrder == 2    \* order of the B+ index runs with the smallest order
MaxWalKey == 2     \* keys of the WALStore runs are 1..MaxWalKey
MaxWalOps == 4     \* set, delete and checkpoint calls in one WALStore run

\* ---- program constants --------------------------------------------------
NULL == 0          \* None
Tilde == 2         \* the key "~": upper end of the compaction scan
COMPACTED == 10    \* file name sstable_compacted.db; sorts after sstable_0..9
BadKey == 0        \* a key that is not a str
ABSENT == -1       \* key not in a dict
ERR == -2          \* the call raised
MinOrder == 3      \* smallest order of the B+ index that is claimed to work
PAGE_SIZE == 4096  \* bytes of one page slot of the index file
HeaderSize == 7    \* struct '<BHI': is_leaf, key_count, next_page
EntryOverhead == 6 \* per entry: '<H' key length and '<I' value or child
ChildSize == 4     \* the last child of an internal page, '<I'

Keys == 1..MaxKey
Values == 1..MaxVal

\* ---- sorted lists (bisect) ----------------------------------------------
bisect_left(ks, key) == Cardinality({i \in 1..Len(ks) : ks[i] < key})
bisect_right(ks, key) == Cardinality({i \in 1..Len(ks) : ks[i] <= key})

RECURSIVE SortedSeq(_)
SortedSeq(S) ==
  IF S = {} THEN <<>>
  ELSE LET m == CHOOSE x \in S : \A y \in S : x <= y
       IN <<m>> \o SortedSeq(S \ {m})

\* ---- MemTable (entries: sorted list of <<key, value>>) ------------------
EntryKeys(entries) == [i \in 1..Len(entries) |-> entries[i][1]]

MemTableAdd(entries, key, value) ==
  LET idx == bisect_left(EntryKeys(entries), key)
  IN IF idx < Len(entries) /\ entries[idx + 1][1] = key
       THEN [entries EXCEPT ![idx + 1] = <<key, value>>]
       ELSE SubSeq(entries, 1, idx) \o << <<key, value>> >>
            \o SubSeq(entries, idx + 1, Len(entries))

MemTableGet(entries, key) ==
  LET idx == bisect_left(EntryKeys(entries), key)
  IN IF idx < Len(entries) /\ entries[idx + 1][1] = key
       THEN entries[idx + 1][2]
       ELSE NULL

MemTableIsFull(entries) == Len(entries) >= MaxSize

MemTableRangeScan(entries, start_key, end_key) ==
  LET start_idx == bisect_left(EntryKeys(entries), start_key)
      end_idx == bisect_right(EntryKeys(entries), end_key)
  IN SubSeq(entries, start_idx + 1, end_idx)

\* ---- SSTable ------------------------------------------------------------
\* A file is [recs: the records in file order, index: the stored key->offset
\* map].  An offset is the ordinal of the record it points at (records of one
\* size); 0 stands for "key not in the index".  A handle is the in-memory
\* object [filename, index].
EmptyIndex == [k \in Keys |-> 0]

SSTableInit(files, filename) ==
  [filename |-> filename,
   index |-> IF filename \in DOMAIN files THEN files[filename].index
             ELSE EmptyIndex]

IndexAfterWrite(index, entries) ==
  [k \in Keys |->
     IF \E i \in 1..Len(entries) : entries[i][1] = k
       THEN CHOOSE i \in 1..Len(entries) : entries[i][1] = k
       ELSE index[k]]

\* write_memtable: the handle after the write, and the directory after the
\* rename of the temp file over the destination.
WriteMemtableHandle(h, entries) ==
  [h EXCEPT !.index = IndexAfterWrite(h.index, entries)]

WriteMemtableFiles(files, h, entries) ==
  [n \in (DOMAIN files) \cup {h.filename} |->
     IF n = h.filename
       THEN [recs |-> entries, index |-> IndexAfterWrite(h.index, entries)]
       ELSE files[n]]

SSTableGet(files, h, key) ==
  IF h.index[key] = 0 THEN NULL
  ELSE IF h.filename \notin DOMAIN files THEN ERR
  ELSE IF h.index[key] > Len(files[h.filename].recs) THEN ERR
  ELSE files[h.filename].recs[h.index[key]][2]

ScanKeys(h, start_key, end_key) ==
  SortedSeq({k \in Keys : h.index[k] # 0 /\ start_key <= k /\ k <= end_key})

\* range_scan is a generator: it yields pairs until a read raises.
RECURSIVE ScanFrom(_, _, _, _)
ScanFrom(files, h, ks, i) ==
  IF i > Len(ks) THEN [items |-> <<>>, err |-> FALSE]
  ELSE LET value == SSTableGet(files, h, ks[i])
       IN IF value = ERR THEN [items |-> <<>>, err |-> TRUE]
          ELSE LET rest == ScanFrom(files, h, ks, i + 1)
               IN IF value # NULL
                    THEN [items |-> << <<ks[i], value>> >> \o rest.items,
                          err |-> rest.err]
                    ELSE rest

SSTableRangeScan(files, h, start_key, end_key) ==
  ScanFrom(files, h, ScanKeys(h, start_key, end_key), 1)

\* ---- WALStore -----------------------------------------------------------
\* wal.log is a list of <<operation, key, value>>; a dict is a function on
\* Keys whose value ABSENT stands for "no such key".  data.db is
\* [exists, map].
EmptyDict == [k \in Keys |-> ABSENT]
NoDataFile == [exists |-> FALSE, map |-> EmptyDict]

ApplyEntry(data, entry) ==
  IF entry[2] \notin Keys THEN data
  ELSE IF entry[1] = "set" THEN [data EXCEPT ![entry[2]] = entry[3]]
  ELSE IF entry[1] = "delete" THEN [data EXCEPT ![entry[2]] = ABSENT]
  ELSE data

RECURSIVE Replay(_, _, _)
Replay(data, log, i) ==
  IF i > Len(log) THEN data ELSE Replay(ApplyEntry(data, log[i]), log, i + 1)

\* a recovery that replays the log and ignores the snapshot
WALRecoverLogOnly(dataFile, log) == Replay(EmptyDict, log, 1)

WALRecover(dataFile, log) ==
  Replay(IF dataFile.exists THEN dataFile.map ELSE EmptyDict, log, 1)

\* The engine state as one record, so that the handlers compose as in the code:
\*   memtable, sstables, walData : the LSMTree object and its WALStore.data
\*   walLog, dataDb, sstFiles    : the files of the directory
\*   raised    : an exception is propagating
\*   compacted : _compact ran to its end during the call
WALSet(s, key, value) ==
  [s EXCEPT !.walLog = Append(s.walLog, <<"set", key, value>>),
            !.walData = [s.walData EXCEPT ![key] = value]]

WALDelete(s, key) ==
  [s EXCEPT !.walLog = Append(s.walLog, <<"delete", key, NULL>>),
            !.walData = IF key \in Keys THEN [s.walData EXCEPT ![key] = ABSENT]
                        ELSE s.walData]

\* a checkpoint that writes the snapshot and leaves the log as it is
WALCheckpointKeepLog(s) ==
  [s EXCEPT !.dataDb = [exists |-> TRUE, map |-> s.walData]]

WALCheckpoint(s) ==
  [s EXCEPT !.dataDb = [exists |-> TRUE, map |-> s.walData],
            !.walLog = <<>>]

\* ---- LSMTree ------------------------------------------------------------
RECURSIVE AddAll(_, _, _)
AddAll(entries, items, i) ==
  IF i > Len(items) THEN entries
  ELSE AddAll(MemTableAdd(entries, items[i][1], items[i][2]), items, i + 1)

\* _compact, lines 102-106: the merged table, or the error of the first read
\* that raises.
RECURSIVE MergeTables(_, _, _, _)
MergeTables(files, tables, i, merged) ==
  IF i > Len(tables) THEN [entries |-> merged, err |-> FALSE]
  ELSE LET scan == SSTableRangeScan(files, tables[i], 0, Tilde)
       IN IF scan.err THEN [entries |-> merged, err |-> TRUE]
          ELSE MergeTables(files, tables, i + 1, AddAll(merged, scan.items, 1))

Compact(s) ==
  LET m == MergeTables(s.sstFiles, s.sstables, 1, <<>>)
      h == SSTableInit(s.sstFiles, COMPACTED)
      new_sstable == WriteMemtableHandle(h, m.entries)
      written == WriteMemtableFiles(s.sstFiles, h, m.entries)
      old_files == {s.sstables[i].filename : i \in 1..Len(s.sstables)}
  IN IF m.err THEN [s EXCEPT !.raised = TRUE]
     ELSE [s EXCEPT !.sstables = <<new_sstable>>,
                    !.sstFiles = [n \in (DOMAIN written) \ old_files |-> written[n]],
                    !.compacted = TRUE]

FlushMemtable(s) ==
  IF s.memtable = <<>> THEN s
  ELSE LET h == SSTableInit(s.sstFiles, Len(s.sstables))
           s1 == [s EXCEPT
                    !.sstFiles = WriteMemtableFiles(s.sstFiles, h, s.memtable),
                    !.sstables = Append(s.sstables, WriteMemtableHandle(h, s.memtable)),
                    !.memtable = <<>>]
           s2 == WALCheckpoint(s1)
       IN IF Len(s2.sstables) > s2.max_sstables THEN Compact(s2) ELSE s2

LSMSet(s, key, value) ==
  IF key \notin Keys THEN [s EXCEPT !.raised = TRUE]
  ELSE LET s1 == WALSet(s, key, value)
           s2 == [s1 EXCEPT !.memtable = MemTableAdd(s1.memtable, key, value)]
       IN IF MemTableIsFull(s2.memtable) THEN FlushMemtable(s2) ELSE s2

LSMDelete(s, key) == LSMSet(WALDelete(s, key), key, NULL)

LSMClose(s) ==
  LET s1 == IF s.memtable # <<>> THEN FlushMemtable(s) ELSE s
  IN IF s1.raised THEN s1 ELSE WALCheckpoint(s1)

RECURSIVE GetFromTables(_, _, _, _)
GetFromTables(files, tables, i, key) ==
  IF i < 1 THEN NULL
  ELSE LET value == SSTableGet(files, tables[i], key)
       IN IF value # NULL THEN value
          ELSE GetFromTables(files, tables, i - 1, key)

LSMGet(s, key) ==
  IF key \notin Keys THEN ERR
  ELSE LET value == MemTableGet(s.memtable, key)
       IN IF value # NULL THEN value
          ELSE GetFromTables(s.sstFiles, s.sstables, Len(s.sstables), key)

\* range_query, drained: the pairs in emission order, and whether the
\* generator ended by raising.
RECURSIVE FilterSeen(_, _, _)
FilterSeen(items, seen, i) ==
  IF i > Len(items) THEN <<>>
  ELSE IF items[i][1] \in seen THEN FilterSeen(items, seen, i + 1)
  ELSE <<items[i]>> \o FilterSeen(items, seen, i + 1)

RECURSIVE RangeFromTables(_, _, _, _, _, _)
RangeFromTables(files, tables, i, start_key, end_key, seen) ==
  IF i < 1 THEN [items |-> <<>>, err |-> FALSE]
  ELSE LET scan == SSTableRangeScan(files, tables[i], start_key, end_key)
           fresh == FilterSeen(scan.items, seen, 1)
           seen1 == seen \cup {fresh[j][1] : j \in 1..Len(fresh)}
       IN IF scan.err THEN [items |-> fresh, err |-> TRUE]
          ELSE LET rest == RangeFromTables(files, tables, i - 1,
                                           start_key, end_key, seen1)
               IN [items |-> fresh \o rest.items, err |-> rest.err]

LSMRangeQuery(s, start_key, end_key) ==
  LET fromMem == MemTableRangeScan(s.memtable, start_key, end_key)
      fromTables == RangeFromTables(s.sstFiles, s.sstables, Len(s.sstables),
                                    start_key, end_key, {})
  IN [items |-> fromMem \o fromTables.items, err |-> fromTables.err]

\* _load_sstables: sorted(glob("sstable_*.db")).
RECURSIVE LoadFrom(_, _, _)
LoadFrom(files, names, i) ==
  IF i > Len(names) THEN <<>>
  ELSE <<SSTableInit(files, names[i])>> \o LoadFrom(files, names, i + 1)

LoadSSTables(files) == LoadFrom(files, SortedSeq(DOMAIN files), 1)

\* LSMTree.__init__ on an existing or new directory.
LSMInit(s) ==
  LET s1 == [s EXCEPT !.memtable = <<>>,
                      !.sstables = LoadSSTables(s.sstFiles),
                      !.walData = WALRecover(s.dataDb, s.walLog),
                      !.raised = FALSE,
                      !.compacted = FALSE]
  IN IF Len(s1.sstables) > s1.max_sstables THEN Compact(s1) ELSE s1

\* ---- the store as a state machine ---------------------------------------
VARIABLES
  alive,      \* an LSMTree object exists in a running process
  max_sstables, \* LSMTree.max_sstables
  memtable,   \* LSMTree.memtable.entries
  sstables,   \* LSMTree.sstables: list of handles, oldest first
  walData,    \* LSMTree.wal.data
  walLog,     \* file wal.log
  dataDb,     \* file data.db
  sstFiles,   \* files sstable_*.db: name -> file
  last,       \* history: per key, value of the last journalled set (NULL: delete)
  lastOk,     \* history: per key, value of the last set/delete that returned
              \* in this session
  ret,        \* the last call: operation, arguments, outcome
  nops        \* history: calls and process ends so far

lsmVars == <<alive, max_sstables, memtable, sstables, walData, walLog, dataDb, sstFiles,
             last, lastOk, ret, nops>>

State ==
  [max_sstables |-> max_sstables,
   memtable |-> memtable, sstables |-> sstables, walData |-> walData,
   walLog |-> walLog, dataDb |-> dataDb, sstFiles |-> sstFiles,
   raised |-> FALSE, compacted |-> FALSE]

Install(s) ==
  /\ memtable' = s.memtable
  /\ sstables' = s.sstables
  /\ walData' = s.walData
  /\ walLog' = s.walLog
  /\ dataDb' = s.dataDb
  /\ sstFiles' = s.sstFiles

Ret(op, key, val, s) ==
  [op |-> op, key |-> key, val |-> val, ok |-> ~s.raised,
   compacted |-> s.compacted, clean |-> FALSE]

LSMStart(max) ==
  /\ alive = TRUE
  /\ max_sstables = max
  /\ memtable = <<>>
  /\ sstables = <<>>
  /\ walData = EmptyDict
  /\ walLog = <<>>
  /\ dataDb = NoDataFile
  /\ sstFiles = <<>>
  /\ last = EmptyDict
  /\ lastOk = EmptyDict
  /\ ret = [op |-> "open", key |-> BadKey, val |-> NULL, ok |-> TRUE,
            compacted |-> FALSE, clean |-> FALSE]
  /\ nops = 0

Step(max_ops) == nops < max_ops /\ nops' = nops + 1

Set(key, value, max_ops) ==
  /\ alive
  /\ Step(max_ops)
  /\ LET s == LSMSet(State, key, value)
     IN /\ Install(s)
        /\ ret' = Ret("set", key, value, s)
        /\ last' = IF key \in Keys THEN [last EXCEPT ![key] = value] ELSE last
        /\ lastOk' = IF ~s.raised THEN [lastOk EXCEPT ![key] = value] ELSE lastOk
  /\ UNCHANGED <<alive, max_sstables>>

Delete(key) ==
  /\ alive
  /\ Step(MaxOps)
  /\ LET s == LSMDelete(State, key)
     IN /\ Install(s)
        /\ ret' = Ret("delete", key, NULL, s)
        /\ last' = IF key \in Keys THEN [last EXCEPT ![key] = NULL] ELSE last
        /\ lastOk' = IF ~s.raised THEN [lastOk EXCEPT ![key] = NULL] ELSE lastOk
  /\ UNCHANGED <<alive, max_sstables>>

Close ==
  /\ alive
  /\ Step(MaxOps)
  /\ LET s == LSMClose(State)
     IN /\ Install(s)
        /\ ret' = Ret("close", BadKey, NULL, s)
  /\ UNCHANGED <<alive, max_sstables, last, lastOk>>

\* The process ends, after a close that returned (a clean exit) or at any
\* other point between two calls (an abort), and a new process constructs an
\* LSMTree on the same directory.  What was only in memory is gone.  When the
\* constructor raises there is no object, and only another restart can follow.
RestartWithin(max_ops) ==
  /\ Step(max_ops)
  /\ LET s == LSMInit(State)
     IN /\ alive' = ~s.raised
        /\ Install(IF s.raised
                     THEN [s EXCEPT !.memtable = <<>>, !.sstables = <<>>,
                                    !.walData = EmptyDict]
                     ELSE s)
        /\ ret' = [Ret("open", BadKey, NULL, s)
                     EXCEPT !.clean = (alive /\ ret.op = "close" /\ ret.ok)]
  /\ lastOk' = EmptyDict
  /\ UNCHANGED <<last, max_sstables>>

Restart == RestartWithin(MaxOps)

LSMNext ==
  \/ \E key \in Keys \cup {BadKey}, value \in Values : Set(key, value, MaxOps)
  \/ \E key \in Keys \cup {BadKey} : Delete(key)
  \/ Close
  \/ Restart

\* A long single session of sets on keys inside the compaction scan range
\* ("" .. "~"): long enough for a second compaction, whose inputs include the
\* output of the first.
DeepNext ==
  \E key \in 1..Tilde, value \in Values : Set(key, value, MaxDeepOps)

\* A long life of a store: sessions of sets, each ended by an abort or an exit
\* without close, each followed by a new LSMTree on the directory.
LifeNext ==
  \/ \E key \in Keys : Set(key, LifeValue, MaxLifeOps)
  \/ RestartWithin(MaxLifeOps)

\* ---- what a caller observes ---------------------------------------------
\* get and range_query leave the state alone; in a state, a call returns:
Get(key) == LSMGet(State, key)
RangeQuery(start_key, end_key) == LSMRangeQuery(State, start_key, end_key)
\* and a new LSMTree constructed now on the directory would return:
Reopened == LSMInit(State)
GetAfterReopen(key) == LSMGet(Reopened, key)

IsValue(v) == v \in Values
\* "not found" for a key that was deleted or never written
Expected(v) == IF IsValue(v) THEN v ELSE NULL

\* every key's latest write was made, and returned, in this session
AllWritesThisSession == \A k \in Keys : lastOk[k] = last[k]

\* C1: within one session get(K) returns the value of the most recent
\* successful set(K, V), whatever flushes and compactions happened since.
C1_GetReturnsLastSet ==
  alive => \A k \in Keys : IsValue(lastOk[k]) => Get(k) = lastOk[k]

\* C2: after set(K, V) and a later delete(K) with no set after it, get(K)
\* returns null, also when V had been flushed before the delete.
C2_DeletedReadsNull ==
  alive => \A k \in Keys : lastOk[k] = NULL => Get(k) = NULL

\* the writes journalled since the last checkpoint
Unflushed == Replay(EmptyDict, walLog, 1)
MemtableAsDict(entries) ==
  [k \in Keys |->
     IF \E i \in 1..Len(entries) : entries[i][1] = k
       THEN MemTableGet(entries, k) ELSE ABSENT]

\* C3: a set that returned and was not flushed survives an abort: a new
\* LSMTree on the directory returns V from get(K), and its memtable holds the
\* result of loading the snapshot and replaying the WAL.
C3_CrashSurvival ==
  alive =>
    /\ \A k \in Keys : IsValue(Unflushed[k]) => GetAfterReopen(k) = Unflushed[k]
    /\ MemtableAsDict(Reopened.memtable) = WALRecover(dataDb, walLog)

\* close() has just returned
ClosedOk == alive /\ ret.op = "close" /\ ret.ok

\* C4: after a session of set/delete calls ended by close(), a new LSMTree on
\* the directory returns, for every key, the value of the last set (null when
\* the last operation was a delete).
C4_DurableAfterClose ==
  (ClosedOk /\ AllWritesThisSession) => \A k \in Keys : GetAfterReopen(k) = Expected(last[k])

RECURSIVE PairsOf(_, _)
PairsOf(ks, i) ==
  IF i > Len(ks) THEN <<>>
  ELSE << <<ks[i], lastOk[ks[i]]>> >> \o PairsOf(ks, i + 1)
\* the live pairs of a range, in ascending key order
LivePairs(lo, hi) ==
  PairsOf(SortedSeq({k \in Keys : lo <= k /\ k <= hi /\ IsValue(lastOk[k])}), 1)

\* C5: range_query(lo, hi), drained, is exactly the live pairs of the range in
\* ascending key order: no deleted key, no null value, nothing twice.
C5_RangeExact ==
  (alive /\ AllWritesThisSession) =>
    \A lo \in Keys, hi \in Keys :
      RangeQuery(lo, hi) = [items |-> LivePairs(lo, hi), err |-> FALSE]

\* C8: set and delete with a key that is not a string raise and leave the WAL
\* file, the WALStore map, the memtable and the SSTable list as they were; get
\* raises too.
C8_BadKeyNoChange ==
  [][(ret'.op \in {"set", "delete"} /\ ret'.key = BadKey) =>
       (~ret'.ok /\ Get(BadKey) = ERR
        /\ UNCHANGED <<walLog, walData, memtable, sstables>>)]_lsmVars

\* C9: when close() returns, wal.log has no entries and data.db maps every
\* key written so far to the value of its last journalled set (absent or null
\* when its last operation was a delete).
C9_CleanClose ==
  ClosedOk =>
    /\ walLog = <<>>
    /\ dataDb.exists
    /\ \A k \in Keys :
         /\ IsValue(last[k]) => dataDb.map[k] = last[k]
         /\ last[k] = NULL => dataDb.map[k] \in {NULL, ABSENT}
\* a close() returned after at least one set and one delete
C9_Witness ==
  /\ ClosedOk
  /\ \E k \in Keys : IsValue(last[k])
  /\ \E k \in Keys : last[k] = NULL

\* C6: after every compaction, the first and the later ones, the SSTable list
\* holds exactly one table, its file sstable_compacted.db exists, no other
\* sstable_*.db file remains, and every key readable before is still readable.
C6_CompactionKeepsOutput ==
  (alive /\ ret.compacted) =>
    /\ Len(sstables) = 1
    /\ sstables[1].filename = COMPACTED
    /\ DOMAIN sstFiles = {COMPACTED}
    /\ \A k \in Keys : IsValue(lastOk[k]) => IsValue(Get(k))

\* The engine state at the entry of the _compact of the step just taken: the
\* same call on a store that never compacts (a call adds at most one table).
BeforeCompaction ==
  LET never == [State EXCEPT !.max_sstables = Len(sstables) + Cardinality(DOMAIN sstFiles) + 1]
  IN IF ret'.op = "set" THEN LSMSet(never, ret'.key, ret'.val)
     ELSE IF ret'.op = "delete" THEN LSMDelete(never, ret'.key)
     ELSE IF ret'.op = "close" THEN LSMClose(never)
     ELSE LSMInit(never)

\* the tables of a list that have an entry for key, oldest first
Holding(tables, key) == {i \in 1..Len(tables) : tables[i].index[key] # 0}
Newest(tables, key) == CHOOSE i \in Holding(tables, key) : \A j \in Holding(tables, key) : j <= i

\* C17: a compaction does not change what get returns for any string key,
\* keys after "~" included, and for a key present in several input SSTables
\* the merged table keeps the value of the newest input.
C17_CompactionKeepsGet ==
  [][ret'.compacted =>
       LET in == BeforeCompaction
       IN \A k \in Keys :
            /\ Get(k)' = LSMGet(in, k)
            /\ Cardinality(Holding(in.sstables, k)) > 1 =>
                 SSTableGet(sstFiles', sstables'[1], k)
                   = SSTableGet(in.sstFiles, in.sstables[Newest(in.sstables, k)], k)]_lsmVars

\* C18: when the newest version of a key among the input SSTables of a
\* compaction is a null value, the compacted SSTable has an entry for the key
\* with a null value: the tombstone is neither dropped nor replaced by an
\* older live value.
C18_CompactionKeepsTombstones ==
  [][ret'.compacted =>
       LET in == BeforeCompaction
       IN \A k \in Keys :
            (/\ Holding(in.sstables, k) # {}
             /\ SSTableGet(in.sstFiles, in.sstables[Newest(in.sstables, k)], k) = NULL)
            => /\ sstables'[1].index[k] # 0
               /\ SSTableGet(sstFiles', sstables'[1], k) = NULL]_lsmVars

FileNames(tables) == [i \in 1..Len(tables) |-> tables[i].filename]

\* C19: a new LSMTree on the directory loads the SSTables oldest first, in
\* the order of their creation, sstable_compacted.db and the numbered tables
\* flushed after it included.  (In a session that began on an empty
\* directory the live list is in creation order: _flush_memtable appends the
\* table it creates and _compact leaves only the table it creates.)
C19_ReloadOrder ==
  alive => FileNames(LoadSSTables(sstFiles)) = FileNames(sstables)

\* the sources of the store that have a version of key, and the newest one
InMemtable(key) == \E i \in 1..Len(memtable) : memtable[i][1] = key
HasVersion(key) == InMemtable(key) \/ Holding(sstables, key) # {}
NewestVersion(key) ==
  IF InMemtable(key) THEN MemTableGet(memtable, key)
  ELSE SSTableGet(sstFiles, sstables[Newest(sstables, key)], key)

\* C20: range_query emits each key at most once, and what it emits for a key
\* is the version of the newest source (the memtable, then the SSTables from
\* the newest): no older version of the key is emitted, also when the newest
\* version is null.
C20_RangeNewestOnce ==
  alive =>
    \A lo \in Keys, hi \in Keys :
      LET r == RangeQuery(lo, hi)
      IN \A k \in lo..hi :
           LET at == {i \in 1..Len(r.items) : r.items[i][1] = k}
           IN /\ Cardinality(at) <= 1
              /\ (HasVersion(k) /\ ~r.err) =>
                   \A i \in at : r.items[i][2] = NewestVersion(k)

\* C21: after the constructor and after every set, delete or close, over
\* sessions of any length, the SSTable list holds at most max_sstables
\* tables: a flush or a startup load that makes the count exceed
\* max_sstables is followed by a compaction that reduces it to one.
C21_SSTableCountBound ==
  alive => Len(sstables) <= max_sstables

\* the keys of a list of entries, and the keys a table has in its index
KeysOf(entries) == {entries[i][1] : i \in 1..Len(entries)}
IndexKeys(h) == {k \in Keys : h.index[k] # 0}

\* C22: after every set or delete that returns, the memtable holds fewer
\* than max_size entries.  The call that brings the memtable to max_size
\* entries writes exactly those entries to a new SSTable, appended as the
\* newest table, and leaves an empty memtable; any other call leaves the
\* tables alone, and overwriting a key of the memtable adds no entry.
C22_MemtableBound ==
  [][(ret'.op \in {"set", "delete"} /\ ret'.ok) =>
       LET added == MemTableAdd(memtable, ret'.key, ret'.val)
           in == BeforeCompaction
           new == in.sstables[Len(in.sstables)]
       IN /\ Len(memtable') < MaxSize
          /\ InMemtable(ret'.key) => Len(added) = Len(memtable)
          /\ IF Len(added) >= MaxSize
               THEN /\ memtable' = <<>>
                    /\ Len(in.sstables) = Len(sstables) + 1
                    /\ SubSeq(in.sstables, 1, Len(sstables)) = sstables
                    /\ in.sstFiles[new.filename].recs = added
                    /\ IndexKeys(new) = KeysOf(added)
               ELSE /\ memtable' = added
                    /\ sstables' = sstables]_lsmVars

\* ---- concurrent writers --------------------------------------------------
\* Threads call LSMTree.set (lsm.py lines 44-54).  Each line of the body is a
\* step of its own; the steps of different threads interleave freely, except
\* for what the RLock forbids.
VARIABLES
  lock,       \* LSMTree.lock: [owner (0: free), count]
  pc,         \* per thread: where it is in set
  targ,       \* per thread: the arguments <<key, value>> of its call
  tdone,      \* per thread: calls that returned
  written,    \* history: per key, the values some thread called set with
  seq         \* history: the engine state had every call run alone, in the
              \* order in which the calls took the lock

concVars == <<lock, pc, targ, tdone, written, seq>>

Threads == 1..NThreads

ConcStart ==
  /\ lock = [owner |-> 0, count |-> 0]
  /\ pc = [t \in Threads |-> "idle"]
  /\ targ = [t \in Threads |-> <<BadKey, NULL>>]
  /\ tdone = [t \in Threads |-> 0]
  /\ written = [k \in Keys |-> {}]
  /\ seq = State

RLockAcquire(l, t) == [owner |-> t, count |-> l.count + 1]
\* a lock that is not reentrant
LockCanAcquire(l, t) == l.owner = 0

RLockCanAcquire(l, t) == l.owner \in {0, t}
RLockRelease(l) ==
  IF l.count = 1 THEN [owner |-> 0, count |-> 0]
  ELSE [l EXCEPT !.count = l.count - 1]

\* with self.lock:
TEnter(t, key, value) ==
  /\ pc[t] = "idle"
  /\ tdone[t] < SetsPerThread
  /\ RLockCanAcquire(lock, t)
  /\ lock' = RLockAcquire(lock, t)
  /\ targ' = [targ EXCEPT ![t] = <<key, value>>]
  /\ pc' = [pc EXCEPT ![t] = "journal"]
  /\ written' = [written EXCEPT ![key] = @ \cup {value}]
  /\ seq' = LSMSet([seq EXCEPT !.raised = FALSE, !.compacted = FALSE], key, value)
  /\ UNCHANGED <<tdone, lsmVars>>

\* self.wal.set(key, value)
TJournal(t) ==
  /\ pc[t] = "journal"
  /\ Install(WALSet(State, targ[t][1], targ[t][2]))
  /\ pc' = [pc EXCEPT ![t] = "add"]
  /\ UNCHANGED <<lock, targ, tdone, written, seq,
                 alive, max_sstables, last, lastOk, ret, nops>>

\* self.memtable.add(key, value)
TAdd(t) ==
  /\ pc[t] = "add"
  /\ memtable' = MemTableAdd(memtable, targ[t][1], targ[t][2])
  /\ pc' = [pc EXCEPT ![t] = "flush"]
  /\ UNCHANGED <<lock, targ, tdone, written, seq, alive, max_sstables,
                 sstables, walData, walLog, dataDb, sstFiles,
                 last, lastOk, ret, nops>>

\* if self.memtable.is_full(): self._flush_memtable()
TFlush(t) ==
  /\ pc[t] = "flush"
  /\ Install(IF MemTableIsFull(memtable) THEN FlushMemtable(State) ELSE State)
  /\ pc' = [pc EXCEPT ![t] = "exit"]
  /\ UNCHANGED <<lock, targ, tdone, written, seq,
                 alive, max_sstables, last, lastOk, ret, nops>>

\* leaving the with block
TExit(t) ==
  /\ pc[t] = "exit"
  /\ lock' = RLockRelease(lock)
  /\ pc' = [pc EXCEPT ![t] = "idle"]
  /\ tdone' = [tdone EXCEPT ![t] = @ + 1]
  /\ UNCHANGED <<targ, written, seq, lsmVars>>

ConcNext ==
  \E t \in Threads :
    \/ \E key \in Keys, value \in Values : TEnter(t, key, value)
    \/ TJournal(t)
    \/ TAdd(t)
    \/ TFlush(t)
    \/ TExit(t)

SameEngine(a, b) ==
  /\ a.memtable = b.memtable
  /\ a.sstables = b.sstables
  /\ a.walData = b.walData
  /\ a.walLog = b.walLog
  /\ a.dataDb = b.dataDb
  /\ a.sstFiles = b.sstFiles

AllDone == \A t \in Threads : pc[t] = "idle" /\ tdone[t] = SetsPerThread

\* C7: concurrent sets are atomic, so the state is that of the calls run one
\* after the other; once all threads have finished, get returns for every
\* written key a value that some thread set for it.
C7_ConcurrentSets ==
  /\ lock.owner = 0 => SameEngine(State, seq)
  /\ AllDone => \A k \in Keys : written[k] # {} => Get(k) \in written[k]

\* ---- range_query as a generator, with other callers ------------------------
\* range_query is a generator function (lsm.py lines 87-98): its body, the
\* "with self.lock" included, starts at the first next() and is suspended at
\* every yield, inside the with block.  The calls of the other threads and of
\* the iterating thread are: enter the with block, the body, leave it.
VARIABLES
  glock,      \* LSMTree.lock: [owner (0: free), count]
  gen,        \* the generator object returned by range_query
  inside,     \* per thread: the call it is in, [op, key, at]
  yielded,    \* history: the items the generator yielded
  gcalls      \* history: calls entered so far

genVars == <<glock, gen, inside, yielded, gcalls>>

NoCall == [op |-> "none", key |-> BadKey, at |-> "out"]

NoGen ==
  [state |-> "none", owner |-> 0, start_key |-> 0, end_key |-> 0,
   stage |-> "mem", mem |-> <<>>, tables |-> <<>>, i |-> 0,
   scanning |-> FALSE, keys |-> <<>>, j |-> 0, seen |-> {}]

GenStart ==
  /\ glock = [owner |-> 0, count |-> 0]
  /\ gen = NoGen
  /\ inside = [t \in Threads |-> NoCall]
  /\ yielded = <<>>
  /\ gcalls = 0

\* The generator body from where it stands to its next yield, its end or an
\* exception, on the engine state s: [g, item, out].
RECURSIVE Advance(_, _)
Advance(g, s) ==
  IF g.stage = "mem"
    THEN IF g.mem # <<>>
           THEN [g |-> [g EXCEPT !.mem = Tail(g.mem)], item |-> Head(g.mem),
                 out |-> "yield"]
           ELSE Advance([g EXCEPT !.stage = "tables", !.tables = s.sstables,
                                  !.i = Len(s.sstables), !.scanning = FALSE], s)
  ELSE IF g.i < 1 THEN [g |-> g, item |-> <<>>, out |-> "stop"]
  ELSE IF ~g.scanning
    THEN Advance([g EXCEPT !.keys = ScanKeys(g.tables[g.i], g.start_key, g.end_key),
                           !.j = 1, !.scanning = TRUE], s)
  ELSE IF g.j > Len(g.keys)
    THEN Advance([g EXCEPT !.i = g.i - 1, !.scanning = FALSE], s)
  ELSE LET key == g.keys[g.j]
           value == SSTableGet(s.sstFiles, g.tables[g.i], key)
           g1 == [g EXCEPT !.j = g.j + 1]
       IN IF value = ERR THEN [g |-> g1, item |-> <<>>, out |-> "raise"]
          ELSE IF value = NULL \/ key \in g.seen THEN Advance(g1, s)
          ELSE [g |-> [g1 EXCEPT !.seen = g.seen \cup {key}],
                item |-> <<key, value>>, out |-> "yield"]

Idle(t) == inside[t].op = "none"

\* t calls range_query: a generator object, nothing of the body has run
GCreate(t, start_key, end_key) ==
  /\ gen.state = "none" /\ Idle(t)
  /\ gen' = [NoGen EXCEPT !.state = "created", !.owner = t,
                          !.start_key = start_key, !.end_key = end_key]
  /\ UNCHANGED <<glock, inside, yielded, gcalls, lsmVars>>

\* next(): the first one enters the with block and scans the memtable
GNext(t) ==
  /\ gen.owner = t /\ Idle(t)
  /\ gen.state \in {"created", "suspended"}
  /\ gen.state = "created" => RLockCanAcquire(glock, t)
  /\ LET held == IF gen.state = "created" THEN RLockAcquire(glock, t) ELSE glock
         g0 == IF gen.state = "created"
                 THEN [gen EXCEPT !.mem = MemTableRangeScan(memtable, gen.start_key, gen.end_key)]
                 ELSE gen
         r == Advance(g0, State)
     IN IF r.out = "yield"
          THEN /\ gen' = [r.g EXCEPT !.state = "suspended"]
               /\ yielded' = Append(yielded, r.item)
               /\ glock' = held
          ELSE /\ gen' = [r.g EXCEPT !.state = "done"]
               /\ yielded' = yielded
               /\ glock' = RLockRelease(held)
  /\ UNCHANGED <<inside, gcalls, lsmVars>>

\* close() of the generator: GeneratorExit at the yield leaves the with block
GClose(t) ==
  /\ gen.owner = t /\ Idle(t)
  /\ gen.state \in {"created", "suspended"}
  /\ gen' = [gen EXCEPT !.state = "done"]
  /\ glock' = IF gen.state = "suspended" THEN RLockRelease(glock) ELSE glock
  /\ UNCHANGED <<inside, yielded, gcalls, lsmVars>>

\* with self.lock: of set, get, delete and close
GEnter(t, op, key) ==
  /\ Idle(t) /\ gcalls < MaxGenCalls
  /\ RLockCanAcquire(glock, t)
  /\ glock' = RLockAcquire(glock, t)
  /\ inside' = [inside EXCEPT ![t] = [op |-> op, key |-> key, at |-> "in"]]
  /\ gcalls' = gcalls + 1
  /\ UNCHANGED <<gen, yielded, lsmVars>>

\* the body of set, get and close
GBody(t) ==
  /\ inside[t].at = "in" /\ inside[t].op \in {"set", "get", "close"}
  /\ Install(IF inside[t].op = "set" THEN LSMSet(State, inside[t].key, LifeValue)
             ELSE IF inside[t].op = "close" THEN LSMClose(State)
             ELSE State)
  /\ inside' = [inside EXCEPT ![t].at = "out"]
  /\ UNCHANGED <<glock, gen, yielded, gcalls,
                 alive, max_sstables, last, lastOk, ret, nops>>

\* delete: self.wal.delete(key), then the with block of the inner set
GDeleteOuter(t) ==
  /\ inside[t].at = "in" /\ inside[t].op = "delete"
  /\ RLockCanAcquire(glock, t)
  /\ glock' = RLockAcquire(glock, t)
  /\ Install(WALDelete(State, inside[t].key))
  /\ inside' = [inside EXCEPT ![t].at = "inner"]
  /\ UNCHANGED <<gen, yielded, gcalls,
                 alive, max_sstables, last, lastOk, ret, nops>>

\* delete: the body of self.set(key, None) and the end of its with block
GDeleteInner(t) ==
  /\ inside[t].at = "inner"
  /\ Install(LSMSet(State, inside[t].key, NULL))
  /\ glock' = RLockRelease(glock)
  /\ inside' = [inside EXCEPT ![t].at = "out"]
  /\ UNCHANGED <<gen, yielded, gcalls,
                 alive, max_sstables, last, lastOk, ret, nops>>

\* leaving the with block
GExit(t) ==
  /\ inside[t].op # "none" /\ inside[t].at = "out"
  /\ glock' = RLockRelease(glock)
  /\ inside' = [inside EXCEPT ![t] = NoCall]
  /\ UNCHANGED <<gen, yielded, gcalls, lsmVars>>

GenNext ==
  \E t \in Threads :
    \/ GCreate(t, 1, MaxKey)
    \/ GNext(t)
    \/ GClose(t)
    \/ \E key \in 1..Tilde : GEnter(t, "set", key)
    \/ \E key \in 1..Tilde : GEnter(t, "delete", key)
    \/ GEnter(t, "get", 1)
    \/ GEnter(t, "close", BadKey)
    \/ GBody(t)
    \/ GDeleteOuter(t)
    \/ GDeleteInner(t)
    \/ GExit(t)

\* the generator is suspended at a yield
Iterating == gen.state = "suspended"

\* C23: from the first item requested until the generator is exhausted or
\* closed, the generator holds the lock and no other thread is inside set,
\* get, delete or close; the iterating thread can enter them (the lock is
\* reentrant); once the generator has finished the lock is free again for
\* the other threads.
C23_RangeQueryHoldsLock ==
  /\ Iterating =>
       /\ glock.owner = gen.owner /\ glock.count >= 1
       /\ \A t \in Threads \ {gen.owner} :
            Idle(t) /\ ~RLockCanAcquire(glock, t)
       /\ RLockCanAcquire(glock, gen.owner)
  /\ (gen.state = "done" /\ \A t \in Threads : Idle(t)) =>
       \A t \in Threads : RLockCanAcquire(glock, t)

\* the generator is suspended after its second item, and its own thread is
\* inside the inner set of a delete
C23_Witness ==
  /\ Iterating /\ Len(yielded) >= 2
  /\ inside[gen.owner].at = "inner"
  /\ glock.count = 3

\* ---- WALStore, file step by file step ------------------------------------
\* A WALStore of its own, with a process that can end between any two file
\* steps of a call:
\*   set, delete : append to wal.log and fsync; then update self.data
\*   checkpoint  : write data.db.tmp; rename it over data.db; truncate wal.log
VARIABLES
  wData,      \* WALStore.data
  wLog,       \* wal.log
  wDb,        \* data.db
  wTmp,       \* data.db.tmp
  wpc,        \* where the running call is: "idle", "appended", "tmp", "renamed"
  wcall,      \* the last call: <<operation, key, value, where a crash hit>>
  applied,    \* history: the map made by the calls whose WAL append completed
  wops        \* calls started so far

walVars == <<wData, wLog, wDb, wTmp, wpc, wcall, applied, wops>>

WalKeys == 1..MaxWalKey

\* the store as the record the WALStore operators work on
WalState == [walLog |-> wLog, walData |-> wData, dataDb |-> wDb]

WalStart ==
  /\ wData = WALRecover(NoDataFile, <<>>)
  /\ wLog = <<>>
  /\ wDb = NoDataFile
  /\ wTmp = NoDataFile
  /\ wpc = "idle"
  /\ wcall = <<"none", 0, 0, "">>
  /\ applied = EmptyDict
  /\ wops = 0

\* set / delete, first step: _append_wal
WAppend(operation, key, value) ==
  /\ wpc = "idle" /\ wops < MaxWalOps
  /\ wops' = wops + 1
  /\ wLog' = (IF operation = "set" THEN WALSet(WalState, key, value)
                                  ELSE WALDelete(WalState, key)).walLog
  /\ applied' = ApplyEntry(applied, <<operation, key, value>>)
  /\ wpc' = "appended"
  /\ wcall' = <<operation, key, value, "">>
  /\ UNCHANGED <<wData, wDb, wTmp>>

\* set / delete, second step: the update of self.data
WUpdate ==
  /\ wpc = "appended"
  /\ wData' = (IF wcall[1] = "set" THEN WALSet(WalState, wcall[2], wcall[3])
                                  ELSE WALDelete(WalState, wcall[2])).walData
  /\ wpc' = "idle"
  /\ UNCHANGED <<wLog, wDb, wTmp, wcall, applied, wops>>

\* checkpoint, first step: pickle.dump to the temp file, fsync
WCheckpointTemp ==
  /\ wpc = "idle" /\ wops < MaxWalOps
  /\ wops' = wops + 1
  /\ wTmp' = WALCheckpoint(WalState).dataDb
  /\ wpc' = "tmp"
  /\ wcall' = <<"checkpoint", 0, 0, "">>
  /\ UNCHANGED <<wData, wLog, wDb, applied>>

\* checkpoint, second step: shutil.move(temp_file, data_file)
WCheckpointRename ==
  /\ wpc = "tmp"
  /\ wDb' = wTmp
  /\ wTmp' = NoDataFile
  /\ wpc' = "renamed"
  /\ UNCHANGED <<wData, wLog, wcall, applied, wops>>

\* checkpoint, third step: truncate(0) of wal.log
WCheckpointTruncate ==
  /\ wpc = "renamed"
  /\ wLog' = WALCheckpoint(WalState).walLog
  /\ wpc' = "idle"
  /\ UNCHANGED <<wData, wDb, wTmp, wcall, applied, wops>>

\* the process ends here and a new WALStore is constructed on the files
WCrash ==
  /\ wData' = WALRecover(wDb, wLog)
  /\ wpc' = "idle"
  /\ wcall' = <<"crash", 0, 0, wpc>>
  /\ UNCHANGED <<wLog, wDb, wTmp, applied, wops>>

WalNext ==
  \/ \E key \in WalKeys, value \in Values : WAppend("set", key, value)
  \/ \E key \in WalKeys : WAppend("delete", key, NULL)
  \/ WUpdate
  \/ WCheckpointTemp
  \/ WCheckpointRename
  \/ WCheckpointTruncate
  \/ WCrash

\* C16: at every point between the file steps of set, delete and checkpoint,
\* the map a new WALStore rebuilds (data.db, then wal.log in file order) is
\* the map made by exactly the calls whose WAL append completed; after the
\* rename and before the truncation the log is still whole and recovery
\* gives the same map as after the truncation.
C16_CrashRecovery ==
  /\ WALRecover(wDb, wLog) = applied
  /\ wpc = "renamed" =>
       /\ wDb = [exists |-> TRUE, map |-> wData]
       /\ WALRecover(wDb, wLog) = WALRecover(wDb, WALCheckpoint(WalState).walLog)

\* a process ended between the rename and the truncation of a checkpoint that
\* followed a set and a delete, and the new WALStore has the map
C16_Witness ==
  /\ wcall[1] = "crash" /\ wcall[4] = "renamed"
  /\ wDb.exists /\ wLog # <<>>
  /\ \E i \in 1..Len(wLog) : wLog[i][1] = "delete"
  /\ \E k \in WalKeys : applied[k] \in Values
  /\ wData = applied

\* ---- BPlusTreeIndex -----------------------------------------------------
\* The index file is page 0 (metadata) followed by the data pages; pages[i] is
\* the page with id i as _get_page decodes it.  A page is
\* [page_id, is_leaf, keys, children, next_page]; keys are byte strings,
\* modelled by 1..MaxBKey in their order.
BKeys == 1..MaxBKey
Orders == MinOrder..MaxOrder
RecordId(key) == 10 * key

KeyLens == {ShortKey, LongKey}

NewPage(page_id, is_leaf) ==
  [page_id |-> page_id, is_leaf |-> is_leaf, keys |-> <<>>, children |-> <<>>,
   next_page |-> 0, readable |-> TRUE]

Min(a, b) == IF a < b THEN a ELSE b

\* bytes of the encoding: a leaf writes zip(keys, children); an internal page
\* writes zip(keys, children[:-1]) and then the last child
EncodedSize(b, page) ==
  LET pairs == IF page.is_leaf THEN Min(Len(page.keys), Len(page.children))
               ELSE IF page.children = <<>> THEN 0
               ELSE Min(Len(page.keys), Len(page.children) - 1)
  IN HeaderSize + pairs * (EntryOverhead + b.key_len)
     + (IF ~page.is_leaf /\ page.children # <<>> THEN ChildSize ELSE 0)

\* serialize followed by deserialize of the first PAGE_SIZE bytes: the page is
\* read back as key_count pairs plus, for an internal page with key_count > 0,
\* one more child; an encoding longer than the slot cannot be decoded.
Stored(b, page) ==
  LET n == Len(page.keys)
      decoded ==
        IF page.is_leaf
          THEN [page EXCEPT !.children = SubSeq(page.children, 1, Min(n, Len(page.children)))]
          ELSE [page EXCEPT
                  !.children = IF n > 0 /\ Len(page.children) = n + 1
                                 THEN page.children
                                 ELSE <<>>,
                  !.next_page = 0]
  IN [decoded EXCEPT !.readable = EncodedSize(b, page) <= PAGE_SIZE]

\* The slot after an encoding that is too long receives its tail.  Keys are
\* zero-padded and the tail starts inside a key, so the slot then begins with a
\* header of zero bytes: an internal page with no key and no child.
Torn(page_id) == NewPage(page_id, FALSE)

GetPage(b, page_id) == b.pages[page_id]

WritePage(b, page) ==
  LET slots == IF page.page_id = Len(b.pages) + 1
                   THEN Append(b.pages, Stored(b, page))
                   ELSE [b.pages EXCEPT ![page.page_id] = Stored(b, page)]
      spills == EncodedSize(b, page) > PAGE_SIZE /\ page.page_id < Len(slots)
  IN [b EXCEPT !.pages = IF spills
                           THEN [slots EXCEPT ![page.page_id + 1] = Torn(page.page_id + 1)]
                           ELSE slots]

\* free_pages is always empty: the new id is file size // PAGE_SIZE
AllocatePage(b, is_leaf) == NewPage(Len(b.pages) + 1, is_leaf)

IsOverfull(b, page) == Len(page.keys) >= b.order

InsertAt(list, pos, x) ==
  SubSeq(list, 1, Min(pos, Len(list))) \o <<x>>
  \o SubSeq(list, Min(pos, Len(list)) + 1, Len(list))

\* the child to descend into at an internal page
ChildPos(keys, key) == bisect_right(keys, key)

\* [leaf, path, raised]: raised when a page on the way cannot be decoded or
\* has no child at the position
RECURSIVE FindLeafFrom(_, _, _, _)
FindLeafFrom(b, current, key, path) ==
  IF ~current.readable THEN [leaf |-> current, path |-> path, raised |-> TRUE]
  ELSE IF current.is_leaf THEN [leaf |-> current, path |-> path, raised |-> FALSE]
  ELSE LET pos == ChildPos(current.keys, key)
       IN IF pos + 1 > Len(current.children)
             \/ current.children[pos + 1] \notin 1..Len(b.pages)
            THEN [leaf |-> current, path |-> path, raised |-> TRUE]
            ELSE FindLeafFrom(b, GetPage(b, current.children[pos + 1]), key,
                              Append(path, current))

FindLeafPage(b, key) == FindLeafFrom(b, GetPage(b, b.root_page), key, <<>>)

\* a leaf that never finds the key it is given
LeafHasNever(leaf, key) == FALSE

LeafHas(leaf, key) ==
  LET pos == bisect_left(leaf.keys, key)
  IN pos < Len(leaf.keys) /\ leaf.keys[pos + 1] = key

AddRecord(leaf, key, value) ==
  LET pos == bisect_left(leaf.keys, key)
  IN [leaf EXCEPT !.keys = InsertAt(leaf.keys, pos, key),
                  !.children = InsertAt(leaf.children, pos, value)]

GetValues(leaf, key) ==
  LET pos == bisect_left(leaf.keys, key)
  IN IF pos < Len(leaf.keys) /\ leaf.keys[pos + 1] = key
       THEN <<leaf.children[pos + 1]>>
       ELSE <<>>

RECURSIVE InsertIntoParent(_, _, _, _, _)
RECURSIVE SplitInternal(_, _, _)

SplitInternal(b, node, path) ==
  LET new_node0 == AllocatePage(b, FALSE)
      n == Len(node.keys)
      mid == n \div 2
      new_node == [new_node0 EXCEPT
                     !.keys = SubSeq(node.keys, mid + 2, n),
                     !.children = SubSeq(node.children, mid + 2, Len(node.children))]
      mid_key == node.keys[mid + 1]
      node1 == [node EXCEPT !.keys = SubSeq(node.keys, 1, mid),
                            !.children = SubSeq(node.children, 1, mid + 1)]
  IN InsertIntoParent(WritePage(WritePage(b, node1), new_node),
                      node1, mid_key, new_node, path)

InsertIntoParent(b, left, key, right, path) ==
  IF path = <<>>
    THEN LET new_root == [AllocatePage(b, FALSE) EXCEPT
                            !.keys = <<key>>,
                            !.children = <<left.page_id, right.page_id>>]
         IN [WritePage(b, new_root) EXCEPT !.root_page = new_root.page_id,
                                           !.meta.root_page = new_root.page_id]
    ELSE LET parent0 == path[Len(path)]
             rest == SubSeq(path, 1, Len(path) - 1)
             pos == bisect_left(parent0.keys, key)
             parent == [parent0 EXCEPT
                          !.keys = InsertAt(parent0.keys, pos, key),
                          !.children = InsertAt(parent0.children, pos + 1, right.page_id)]
             b1 == WritePage(b, parent)
         IN IF IsOverfull(b1, parent) THEN SplitInternal(b1, parent, rest) ELSE b1

SplitLeaf(b, leaf, path) ==
  LET new_leaf0 == AllocatePage(b, TRUE)
      n == Len(leaf.keys)
      mid == n \div 2
      new_leaf == [new_leaf0 EXCEPT !.keys = SubSeq(leaf.keys, mid + 1, n),
                                    !.children = SubSeq(leaf.children, mid + 1, n),
                                    !.next_page = leaf.next_page]
      leaf1 == [leaf EXCEPT !.keys = SubSeq(leaf.keys, 1, mid),
                            !.children = SubSeq(leaf.children, 1, mid),
                            !.next_page = new_leaf.page_id]
  IN InsertIntoParent(WritePage(WritePage(b, leaf1), new_leaf),
                      leaf1, new_leaf.keys[1], new_leaf, path)

BPInsert(b, key, value) ==
  LET found == FindLeafPage(b, key)
  IN IF found.raised \/ LeafHas(found.leaf, key) THEN b
     ELSE LET leaf == AddRecord(found.leaf, key, value)
              b1 == WritePage(b, leaf)
          IN IF IsOverfull(b1, leaf) THEN SplitLeaf(b1, leaf, found.path) ELSE b1

BPSearch(b, key) ==
  LET found == FindLeafPage(b, key)
  IN [raised |-> found.raised,
      values |-> IF found.raised THEN <<>> ELSE GetValues(found.leaf, key)]

\* one leaf of range_query: [values, done], done when a key beyond end was met
RECURSIVE ScanLeaf(_, _, _, _, _)
ScanLeaf(page, start, end, i, results) ==
  IF i > Min(Len(page.keys), Len(page.children))
    THEN [values |-> results, done |-> FALSE]
  ELSE IF start <= page.keys[i] /\ page.keys[i] <= end
    THEN ScanLeaf(page, start, end, i + 1, Append(results, page.children[i]))
  ELSE IF page.keys[i] > end THEN [values |-> results, done |-> TRUE]
  ELSE ScanLeaf(page, start, end, i + 1, results)

\* the walk along next_page; an internal page has no next_page attribute, and
\* a page that cannot be decoded or lies beyond the file raises
RECURSIVE RangeFrom(_, _, _, _, _)
RangeFrom(b, current_page, start, end, results) ==
  IF ~current_page.readable THEN [raised |-> TRUE, values |-> <<>>]
  ELSE LET scan == ScanLeaf(current_page, start, end, 1, results)
       IN IF scan.done THEN [raised |-> FALSE, values |-> scan.values]
          ELSE IF ~current_page.is_leaf THEN [raised |-> TRUE, values |-> <<>>]
          ELSE IF current_page.next_page = 0
            THEN [raised |-> FALSE, values |-> scan.values]
          ELSE IF current_page.next_page \notin 1..Len(b.pages)
            THEN [raised |-> TRUE, values |-> <<>>]
          ELSE RangeFrom(b, GetPage(b, current_page.next_page), start, end, scan.values)

BPRangeQuery(b, start, end) ==
  LET found == FindLeafPage(b, start)
  IN IF found.raised THEN [raised |-> TRUE, values |-> <<>>]
     ELSE RangeFrom(b, found.leaf, start, end, <<>>)

VARIABLES
  index,      \* the BPlusTreeIndex and its file:
              \*   order, root_page : self.order, self.metadata['root_page']
              \*   meta             : page 0 [magic, order, root_page]
              \*   pages            : the data pages, as _get_page decodes them
              \*   key_len          : length of the keys the caller uses
  inserted,   \* history: per key, the value its insert stored (0: never)
  call        \* the last insert call: its key, its value, and what search(key)
              \* returned just before it

bpVars == <<index, inserted, call>>

Magic == 324508639  \* 0x13579BDF

\* BPlusTreeIndex(filename, order) on a file that does not exist yet
BPStartOn(order, key_len, keys) ==
  LET b == [order |-> order, root_page |-> 1, key_len |-> key_len,
            meta |-> [magic |-> Magic, order |-> order, root_page |-> 1],
            pages |-> <<>>]
  IN /\ index = WritePage(b, NewPage(1, TRUE))
     /\ inserted = [k \in keys |-> 0]
     /\ call = [key |-> 0, value |-> 0, before |-> BPSearch(index, 0)]

BPStart(order, key_len) == BPStartOn(order, key_len, BKeys)

Insert(key, value) ==
  /\ index' = BPInsert(index, key, value)
  /\ inserted' = IF inserted[key] = 0 /\ ~FindLeafPage(index, key).raised
                   THEN [inserted EXCEPT ![key] = value]
                   ELSE inserted
  /\ call' = [key |-> key, value |-> value, before |-> BPSearch(index, key)]

\* a second insert of a key, with another value than the first one
Reinsert(key) == inserted[key] # 0 /\ Insert(key, inserted[key] + 1)

BPNext == \E key \in BKeys : Insert(key, RecordId(key)) \/ Reinsert(key)

\* C10: for every order >= 3 and every insertion order of distinct keys,
\* search(k) is [v] for every inserted pair (k, v) and [] for every other key.
C10_Search ==
  \A k \in 0..(MaxBKey + 1) :
    BPSearch(index, k) =
      [raised |-> FALSE,
       values |-> IF k \in BKeys /\ inserted[k] # 0 THEN <<inserted[k]>> ELSE <<>>]

\* the values of the inserted keys lo..hi in ascending key order
RECURSIVE InsertedValues(_, _)
InsertedValues(lo, hi) ==
  IF lo > hi THEN <<>>
  ELSE (IF lo \in BKeys /\ inserted[lo] # 0 THEN <<inserted[lo]>> ELSE <<>>)
       \o InsertedValues(lo + 1, hi)

\* C11: for every order >= 3 and every insertion history of distinct keys,
\* range_query(lo, hi) is the values of the inserted keys in [lo, hi], each
\* once, in ascending key order, whether or not lo and hi are stored keys.
C11_RangeQuery ==
  \A lo \in 0..(MaxBKey + 1), hi \in 0..(MaxBKey + 1) :
    BPRangeQuery(index, lo, hi) = [raised |-> FALSE, values |-> InsertedValues(lo, hi)]

\* Deep runs: keys 1..MaxDeepKey, each new key just below or just above the
\* keys inserted so far, which grows the tree to its internal splits.
DeepKeys == 1..MaxDeepKey
InsertedKeys == {k \in DOMAIN inserted : inserted[k] # 0}
Adjacent(key) ==
  \/ InsertedKeys = {}
  \/ key \notin InsertedKeys /\ (key + 1 \in InsertedKeys \/ key - 1 \in InsertedKeys)

BPDeepNext == \E key \in DeepKeys : Adjacent(key) /\ Insert(key, RecordId(key))

\* C12: insert(k, v2) of a key that is present with value v1 writes no page,
\* splits nothing, leaves the root pointer alone, and search(k) is still [v1].
C12_DuplicateInsert ==
  [][(inserted[call'.key] # 0) =>
       /\ index' = index
       /\ BPSearch(index', call'.key) = call'.before
       /\ call'.before.values # <<>> => call'.before.values = <<inserted[call'.key]>>]_bpVars

\* a key of a tree of several pages was inserted again with another value
C12_Witness ==
  /\ call.before.values # <<>>
  /\ call.value # call.before.values[1]
  /\ Len(index.pages) > 3

\* ceil((order + 1) / 2) - 1
MinKeys(order) == (order + 2) \div 2 - 1

\* C13: for every order >= 3, even and odd, and every insertion sequence of
\* distinct keys, every page other than the root holds at least
\* ceil((order + 1) / 2) - 1 keys.
C13_MinOccupancy ==
  \A i \in 1..Len(index.pages) :
    i # index.root_page => Len(index.pages[i].keys) >= MinKeys(index.order)

\* the leaf reached from the root through the first child of every page
RECURSIVE LeftmostFrom(_, _)
LeftmostFrom(b, page) ==
  IF ~page.readable \/ page.is_leaf THEN page
  ELSE IF page.children = <<>> \/ page.children[1] \notin 1..Len(b.pages) THEN page
  ELSE LeftmostFrom(b, GetPage(b, page.children[1]))

\* the keys met by following next_page from a leaf, at most fuel pages long;
\* ok is FALSE when the walk meets a page that is not a readable leaf or does
\* not end within fuel pages
RECURSIVE ChainFrom(_, _, _, _)
ChainFrom(b, page, keys, fuel) ==
  IF ~page.readable \/ ~page.is_leaf \/ fuel = 0 THEN [ok |-> FALSE, keys |-> keys]
  ELSE IF page.next_page = 0 THEN [ok |-> TRUE, keys |-> keys \o page.keys]
  ELSE IF page.next_page \notin 1..Len(b.pages) THEN [ok |-> FALSE, keys |-> keys]
  ELSE ChainFrom(b, GetPage(b, page.next_page), keys \o page.keys, fuel - 1)

LeafChain(b) ==
  ChainFrom(b, LeftmostFrom(b, GetPage(b, b.root_page)), <<>>, Len(b.pages))

\* C14: following next_page from the leftmost leaf visits every inserted key
\* exactly once, in strictly ascending order, and ends at a leaf whose
\* next_page is 0.
C14_LeafChain ==
  LeafChain(index) = [ok |-> TRUE, keys |-> SortedSeq(InsertedKeys)]

\* C15: for every order >= 2 and every insertion sequence, every internal
\* page, as written to disk and read back, has len(children) = len(keys) + 1,
\* the right-hand page of an internal split included.
C15_InternalShape ==
  \A i \in 1..Len(index.pages) :
    (index.pages[i].readable /\ ~index.pages[i].is_leaf) =>
      Len(index.pages[i].children) = Len(index.pages[i].keys) + 1

\* ---- specifications -----------------------------------------------------
\* C24: an insertion splits a leaf, and a promotion an internal page, exactly
\* when the page then holds more than order keys: a page that loses keys in
\* a step (a split is the only way) held more than order keys after the key
\* was added, and a page with exactly order keys stays as it is.
C24_SplitThreshold ==
  [][\A i \in 1..Len(index.pages) :
       /\ Len(index'.pages[i].keys) <= index.order
       /\ Len(index'.pages[i].keys) < Len(index.pages[i].keys) =>
            Len(index.pages[i].keys) + 1 > index.order]_bpVars

\* the slot holds, whole, the page that was last written to it
Intact(b, page_id) ==
  /\ b.pages[page_id].readable
  /\ b.pages[page_id] # Torn(page_id)

\* C25: a page write stays inside the 4096-byte slot of its page: an encoding
\* longer than the slot is never written, and no write changes the slot of
\* another page; so every slot of the file holds a whole page.
C25_WritesStayInPage ==
  \A i \in 1..Len(index.pages) :
    /\ EncodedSize(index, index.pages[i]) <= PAGE_SIZE
    /\ Intact(index, i)

\* a constructor that keeps its order argument and the root page of a new file
BPOpenFresh(b, order) ==
  [raised |-> FALSE, handle |-> [b EXCEPT !.order = order, !.root_page = 1]]

\* BPlusTreeIndex(filename, order) on the existing file: _load_metadata
BPOpen(b, order) ==
  [raised |-> b.meta.magic # Magic,
   handle |-> [b EXCEPT !.order = b.meta.order, !.root_page = b.meta.root_page]]

\* C26: after any sequence of inserts through one handle, a new handle on the
\* file, whatever its order argument, has the order and the root page stored
\* in page 0 and returns what the first handle returns from search and
\* range_query; the root page stored in page 0 is the first handle's root.
C26_Reopen ==
  /\ index.meta.root_page = index.root_page
  /\ \A order \in Orders \cup {SmallOrder} :
       LET opened == BPOpen(index, order)
       IN /\ ~opened.raised
          /\ opened.handle.order = index.order
          /\ opened.handle.root_page = index.root_page
          /\ \A key \in BKeys :
               BPSearch(opened.handle, key) = BPSearch(index, key)
          /\ \A lo \in BKeys, hi \in BKeys :
               BPRangeQuery(opened.handle, lo, hi) = BPRangeQuery(index, lo, hi)

\* the root was replaced twice and every key is stored and found
C26_Witness ==
  /\ index.root_page > 3
  /\ index.meta.root_page = index.root_page
  /\ \A key \in BKeys : BPSearch(BPOpen(index, SmallOrder).handle, key).values = <<RecordId(key)>>

\* ---- BPlusTree (src/BPlusTree/b_plus_tree.py), in memory -------------------
\* The objects are a heap: nodes is the list of all nodes ever created, a node
\* reference is its position, 0 stands for None.  A node is
\* [is_leaf, keys, values, children, next_leaf].  The tree record also holds
\*   global : what the module-level name bplus_tree, read by Node.is_root,
\*            refers to: "unset" (no such name), "this" tree, "other" tree
\*   raised : an exception is propagating
TKeys == 1..MaxTKey
TOrders == MinTOrder..MaxTOrder
Globals == {"unset", "this", "other"}
ValueOf(key) == 10 * key

LeafNode == [is_leaf |-> TRUE, keys |-> <<>>, values |-> <<>>, children |-> <<>>,
             next_leaf |-> 0]
InternalNode == [is_leaf |-> FALSE, keys |-> <<>>, values |-> <<>>, children |-> <<>>,
                 next_leaf |-> 0]

BPlusTreeInit(order, global) ==
  [order |-> order, root |-> 1, nodes |-> <<LeafNode>>, global |-> global,
   raised |-> FALSE]

is_overfilled(t, n) == Len(t.nodes[n].keys) > t.order
is_half_filled(t, n) == Len(t.nodes[n].keys) >= (t.order + 1) \div 2

\* "index = 0; while index < len(keys) and keys[index] < key: index += 1"
RECURSIVE WhileLess(_, _, _)
WhileLess(keys, key, pos) ==
  IF pos < Len(keys) /\ keys[pos + 1] < key
    THEN WhileLess(keys, key, pos + 1) ELSE pos

\* "while index < len(keys) and key >= keys[index]: index += 1"
RECURSIVE WhileNotLess(_, _, _)
WhileNotLess(keys, key, pos) ==
  IF pos < Len(keys) /\ key >= keys[pos + 1]
    THEN WhileNotLess(keys, key, pos + 1) ELSE pos

ListInsert(list, pos, x) ==
  SubSeq(list, 1, pos) \o <<x>> \o SubSeq(list, pos + 1, Len(list))

\* _find_leaf_with_path: [leaf, path]
RECURSIVE FindLeafWithPath(_, _, _, _)
FindLeafWithPath(t, current, key, path) ==
  IF t.nodes[current].is_leaf THEN [leaf |-> current, path |-> path]
  ELSE LET pos == WhileNotLess(t.nodes[current].keys, key, 0)
       IN FindLeafWithPath(t, t.nodes[current].children[pos + 1], key,
                           Append(path, current))

\* LeafNode.get: the lower-bound binary search
RECURSIVE LowerBound(_, _, _, _)
LowerBound(keys, key, left, right) ==
  IF left < right
    THEN LET mid == (left + right) \div 2
         IN IF keys[mid + 1] < key THEN LowerBound(keys, key, mid + 1, right)
            ELSE LowerBound(keys, key, left, mid)
    ELSE left

LeafGet(node, key) ==
  LET left == LowerBound(node.keys, key, 0, Len(node.keys))
  IN IF left < Len(node.keys) /\ node.keys[left + 1] = key
       THEN node.values[left + 1] ELSE NULL

TreeGet(t, key) ==
  LeafGet(t.nodes[FindLeafWithPath(t, t.root, key, <<>>).leaf], key)

LeafInsert(node, key, value) ==
  LET pos == WhileLess(node.keys, key, 0)
  IN [node EXCEPT !.keys = ListInsert(node.keys, pos, key),
                  !.values = ListInsert(node.values, pos, value)]

\* LeafNode.split: the new leaf gets keys[mid:] and values[mid:] and is linked
\* after the old one; self.keys and self.values are not assigned
LeafSplit(t, n) ==
  LET node == t.nodes[n]
      mid == Len(node.keys) \div 2
      new_node == [LeafNode EXCEPT
                     !.keys = SubSeq(node.keys, mid + 1, Len(node.keys)),
                     !.values = SubSeq(node.values, mid + 1, Len(node.values)),
                     !.next_leaf = node.next_leaf]
      id == Len(t.nodes) + 1
  IN [t |-> [t EXCEPT !.nodes = Append([t.nodes EXCEPT ![n].next_leaf = id], new_node)],
      new_node |-> id, promote_key |-> new_node.keys[1]]

InternalSplit(t, n) ==
  LET node == t.nodes[n]
      mid == Len(node.keys) \div 2
      new_node == [InternalNode EXCEPT
                     !.keys = SubSeq(node.keys, mid + 2, Len(node.keys)),
                     !.children = SubSeq(node.children, mid + 2, Len(node.children))]
      id == Len(t.nodes) + 1
  IN [t |-> [t EXCEPT !.nodes =
               Append([t.nodes EXCEPT ![n].keys = SubSeq(node.keys, 1, mid),
                                      ![n].children = SubSeq(node.children, 1, mid + 1)],
                      new_node)],
      new_node |-> id, promote_key |-> node.keys[mid + 1]]

InsertChild(node, key, child_node) ==
  LET pos == WhileLess(node.keys, key, 0)
  IN [node EXCEPT !.keys = ListInsert(node.keys, pos, key),
                  !.children = ListInsert(node.children, pos + 1, child_node)]

RECURSIVE HandleSplit(_, _, _)
HandleSplit(t, n, path) ==
  LET split == IF t.nodes[n].is_leaf THEN LeafSplit(t, n) ELSE InternalSplit(t, n)
      t1 == split.t
  IN IF path = <<>>
       THEN LET new_root == [InternalNode EXCEPT !.keys = <<split.promote_key>>,
                                                 !.children = <<n, split.new_node>>]
            IN [t1 EXCEPT !.nodes = Append(t1.nodes, new_root),
                          !.root = Len(t1.nodes) + 1]
       ELSE LET parent == path[Len(path)]
                t2 == [t1 EXCEPT !.nodes[parent] =
                         InsertChild(t1.nodes[parent], split.promote_key, split.new_node)]
            IN IF is_overfilled(t2, parent)
                 THEN HandleSplit(t2, parent, SubSeq(path, 1, Len(path) - 1))
                 ELSE t2

TreeInsert(t, key, value) ==
  LET found == FindLeafWithPath(t, t.root, key, <<>>)
      t1 == [t EXCEPT !.nodes[found.leaf] = LeafInsert(t.nodes[found.leaf], key, value),
                      !.raised = FALSE]
  IN IF is_overfilled(t1, found.leaf) THEN HandleSplit(t1, found.leaf, found.path)
     ELSE t1

\* list.index(x): position of the first occurrence, 0-based
IndexOf(list, x) == (CHOOSE i \in 1..Len(list) : list[i] = x /\ \A j \in 1..(i - 1) : list[j] # x) - 1

ListPop(list, pos) == SubSeq(list, 1, pos) \o SubSeq(list, pos + 2, Len(list))

LeafHasKey(node, key) == \E i \in 1..Len(node.keys) : node.keys[i] = key

LeafDelete(node, key) ==
  LET pos == IndexOf(node.keys, key)
  IN [node EXCEPT !.keys = ListPop(node.keys, pos),
                  !.values = ListPop(node.values, pos)]

\* _handle_underflow.  Node.is_root reads the module-level name bplus_tree:
\* NameError when there is none.  A node that is neither the root nor half
\* filled goes on to path[-1] (IndexError on an empty path) and to
\* left_sib.can_lend() or right_sib.can_lend(); no class defines can_lend, so
\* the call raises AttributeError; with no sibling at all, merge(node, None)
\* raises on right.keys.  redistribute and merge are never reached with two
\* nodes.
HandleUnderflow(t, n, path) ==
  IF t.global = "unset" THEN [t EXCEPT !.raised = TRUE]
  ELSE IF (t.global = "this" /\ n = t.root) \/ is_half_filled(t, n) THEN t
  ELSE [t EXCEPT !.raised = TRUE]

TreeDelete(t, key) ==
  LET found == FindLeafWithPath(t, t.root, key, <<>>)
      t0 == [t EXCEPT !.raised = FALSE]
  IN IF ~LeafHasKey(t.nodes[found.leaf], key) THEN t0
     ELSE HandleUnderflow([t0 EXCEPT !.nodes[found.leaf] = LeafDelete(t.nodes[found.leaf], key)],
                          found.leaf, found.path)

VARIABLES
  tree,       \* the BPlusTree and its nodes
  present,    \* history: key -> value of the keys inserted and not deleted (0: none)
  tcall       \* the last call: [op, key, before, n], before = get of every
              \* key just before the call, n = calls so far

treeVars == <<tree, present, tcall>>

Gets(t) == [k \in TKeys |-> TreeGet(t, k)]

TreeStartOn(order, global) ==
  /\ tree = BPlusTreeInit(order, global)
  /\ present = [k \in TKeys |-> 0]
  /\ tcall = [op |-> "new", key |-> 0, before |-> Gets(tree), n |-> 0]

\* the tree of the example at the end of the module: bplus_tree = BPlusTree(order=3)
TreeStart == TreeStartOn(MaxTOrder, "this")

\* insert of a key that is not in the tree
TInsert(key) ==
  /\ present[key] = 0 /\ tcall.n < MaxTOps
  /\ tree' = TreeInsert(tree, key, ValueOf(key))
  /\ present' = [present EXCEPT ![key] = ValueOf(key)]
  /\ tcall' = [op |-> "insert", key |-> key, before |-> Gets(tree), n |-> tcall.n + 1]

\* delete of a key that is in the tree
TDelete(key) ==
  /\ present[key] # 0 /\ tcall.n < MaxTOps
  /\ tree' = TreeDelete(tree, key)
  /\ present' = [present EXCEPT ![key] = 0]
  /\ tcall' = [op |-> "delete", key |-> key, before |-> Gets(tree), n |-> tcall.n + 1]

TreeInsertNext == \E key \in TKeys : TInsert(key)

TreeNext ==
  \/ \E key \in TKeys : TInsert(key)
  \/ \E key \in TKeys : TDelete(key)

\* every call so far was an insert of a key that was not in the tree
BuiltByInserts == Cardinality({k \in TKeys : present[k] # 0}) = tcall.n

\* delete(key) has just returned or raised, on a tree built by inserts alone
DeletedFromBuilt ==
  /\ BuiltByInserts
  /\ tcall'.op = "delete" /\ tcall'.n = tcall.n + 1

\* C27: on a tree built by inserts of distinct keys, delete(k) of a present
\* key k completes without raising, after it get(k) is None, and get of every
\* other key returns what it returned before the call.
C27_Delete ==
  [][DeletedFromBuilt =>
       /\ ~tree'.raised
       /\ Gets(tree')[tcall'.key] = 0
       /\ \A k \in TKeys \ {tcall'.key} : Gets(tree')[k] = tcall'.before[k]]_treeVars

\* the leaves on the next_leaf chain that starts at leaf n (at most len hops)
RECURSIVE Chain(_, _, _)
Chain(t, n, len) ==
  IF n = 0 \/ len = 0 THEN <<>> ELSE <<n>> \o Chain(t, t.nodes[n].next_leaf, len - 1)

\* the leftmost leaf: children[0] from the root down
RECURSIVE Leftmost(_, _)
Leftmost(t, n) == IF t.nodes[n].is_leaf THEN n ELSE Leftmost(t, t.nodes[n].children[1])

\* the keys met by following next_leaf from the leftmost leaf
RECURSIVE KeysAlong(_, _)
KeysAlong(t, chain) ==
  IF chain = <<>> THEN <<>> ELSE t.nodes[Head(chain)].keys \o KeysAlong(t, Tail(chain))

TreeLeafChain(t) == Chain(t, Leftmost(t, t.root), Len(t.nodes))

\* the keys of the tree in ascending order
RECURSIVE Ascending(_, _)
Ascending(S, from) ==
  IF from > MaxTKey THEN <<>>
  ELSE (IF from \in S THEN <<from>> ELSE <<>>) \o Ascending(S, from + 1)

\* C28: after any sequence of inserts of distinct keys no key is stored in two
\* leaves, and following next_leaf from the leftmost leaf visits every key
\* exactly once in ascending order (a split leaves keys [0..mid) in the old
\* leaf and puts [mid..n) in the new one, linked directly after it).
C28_LeafSplit ==
  BuiltByInserts =>
    /\ \A a, b \in 1..Len(tree.nodes) :
         (a # b /\ tree.nodes[a].is_leaf /\ tree.nodes[b].is_leaf)
           => \A i \in 1..Len(tree.nodes[a].keys), j \in 1..Len(tree.nodes[b].keys) :
                tree.nodes[a].keys[i] # tree.nodes[b].keys[j]
    /\ KeysAlong(tree, TreeLeafChain(tree)) = Ascending({k \in TKeys : present[k] # 0}, 1)

vars == <<lsmVars, concVars, bpVars, walVars, genVars, treeVars>>

LSMInitState == LSMStart(MaxSstables) /\ ConcStart /\ WalStart /\ GenStart /\ TreeStart /\ BPStart(MinOrder, ShortKey)

SpecLSM == LSMInitState /\ [][LSMNext /\ UNCHANGED <<concVars, bpVars, walVars, genVars, treeVars>>]_vars

DeepInitState == LSMStart(DeepMaxSstables) /\ ConcStart /\ WalStart /\ GenStart /\ TreeStart /\ BPStart(MinOrder, ShortKey)

SpecCompaction == DeepInitState /\ [][DeepNext /\ UNCHANGED <<concVars, bpVars, walVars, genVars, treeVars>>]_vars

\* a long single session of a store with the small max_sstables
SpecLongSession == LSMInitState /\ [][DeepNext /\ UNCHANGED <<concVars, bpVars, walVars, genVars, treeVars>>]_vars
SpecLife == LSMInitState /\ [][LifeNext /\ UNCHANGED <<concVars, bpVars, walVars, genVars, treeVars>>]_vars
SpecConc == LSMInitState /\ [][ConcNext /\ UNCHANGED <<bpVars, walVars, genVars, treeVars>>]_vars

SpecGen == LSMInitState /\ [][GenNext /\ UNCHANGED <<concVars, bpVars, walVars, treeVars>>]_vars

TreeInitState ==
  /\ LSMStart(MaxSstables) /\ ConcStart /\ WalStart /\ GenStart
  /\ BPStart(MinOrder, ShortKey)
  /\ \E order \in TOrders, global \in Globals : TreeStartOn(order, global)

SpecTree == TreeInitState /\ [][TreeNext /\ UNCHANGED <<lsmVars, concVars, bpVars, walVars, genVars>>]_vars

SpecTreeInserts ==
  TreeInitState /\ [][TreeInsertNext /\ UNCHANGED <<lsmVars, concVars, bpVars, walVars, genVars>>]_vars

SpecWAL == LSMInitState /\ [][WalNext /\ UNCHANGED <<lsmVars, concVars, bpVars, genVars, treeVars>>]_vars

BPInitState ==
  /\ LSMStart(MaxSstables) /\ ConcStart /\ WalStart /\ GenStart /\ TreeStart
  /\ \E order \in Orders, key_len \in KeyLens : BPStart(order, key_len)

BPDeepInitState ==
  /\ LSMStart(MaxSstables) /\ ConcStart /\ WalStart /\ GenStart /\ TreeStart
  /\ \E order \in Orders : BPStartOn(order, ShortKey, DeepKeys)

SpecBPDeep == BPDeepInitState /\ [][BPDeepNext /\ UNCHANGED <<lsmVars, concVars, walVars, genVars, treeVars>>]_vars

SpecBP == BPInitState /\ [][BPNext /\ UNCHANGED <<lsmVars, concVars, walVars, genVars, treeVars>>]_vars

BPSmallInitState ==
  /\ LSMStart(MaxSstables) /\ ConcStart /\ WalStart /\ GenStart /\ TreeStart
  /\ \E key_len \in KeyLens : BPStart(SmallOrder, key_len)

SpecBPSmall == BPSmallInitState /\ [][BPNext /\ UNCHANGED <<lsmVars, concVars, walVars, genVars, treeVars>>]_vars

====
